---- MODULE Spec2Model ----
(***************************************************************************)
(* A model of ntfs/filesystem/__init__.py (python-ntfs): the cluster       *)
(* accessor, the non-resident data view, file reads, the construction of   *)
(* the filesystem facade and directory navigation.                         *)
(*                                                                         *)
(* Byte strings are sequences of integers 0..255.  A call that raises is   *)
(* the record Raise(kind); a call that returns v is Return(v) (ReturnInt   *)
(* for an integer).  One byte read from a byte string is a string of       *)
(* length 1, as in Python 2.  Sizes are                                    *)
(* scaled down (cluster sizes of 2 and 4 bytes, an MFT record of 1 byte)   *)
(* so that the volume stays small; the arithmetic is the code's.           *)
(***************************************************************************)
EXTENDS Integers, Sequences, FiniteSets, TLC

VARIABLES
    volume,        \* NTFSFilesystem._volume: [oem_id, size], size in bytes
    cluster_size,  \* ClusterAccessor._cluster_size
    runentries,    \* NonResidentAttributeData._runentries of the view under test
    view_len,      \* NonResidentAttributeData._len of that view (NoneLen: not cached)
    attr,          \* the unnamed $DATA attribute of the file under test
    disk,          \* what the volume's metadata decodes to: boot record fields, MFT runlists, records
    fs,            \* the NTFSFilesystem object: whether it was built, and its _mft_data
    call,          \* the last call made on the library, with its arguments
    ret            \* what the last call returned or raised

vars == <<volume, cluster_size, runentries, view_len, attr, disk, fs, call, ret>>

----------------------------------------------------------------------------
(* Bounds of the model *)

MaxRuns == 3          \* runs in the runlist of a data view
MaxRunLen == 2        \* clusters in one run
MaxValueLen == 3      \* bytes in a resident $DATA value
MaxReadOff == 5       \* largest offset passed to file.read
MaxReadLen == 5       \* largest length passed to file.read
MaxNodeEntries == 2   \* entries in one index node ($INDEX_ROOT or an index block)
MaxPathLen == 5       \* characters in a path given to get_path_entry

----------------------------------------------------------------------------
(* Results of calls *)

(* val: a byte string or a list; int: an integer result *)
Return(v) == [exc |-> "none", val |-> v, int |-> 0]
ReturnInt(n) == [exc |-> "none", val |-> <<>>, int |-> n]
Raise(e) == [exc |-> e, val |-> <<>>, int |-> 0]
NoneLen == 0 - 1      \* Python's None in the _len cache

Min(a, b) == IF a < b THEN a ELSE b
Max(a, b) == IF a > b THEN a ELSE b

(* s[a:b] of Python on a byte string, a and b integers (PyInt) or None      *)
(* (PyNone): a negative index counts from the end, indices are clamped to  *)
(* [0, len(s)] and an empty range gives the empty string.                  *)
PyNone == [none |-> TRUE, i |-> 0]
PyInt(i) == [none |-> FALSE, i |-> i]
PyIndex(x, n, dflt) ==
    IF x.none THEN dflt
    ELSE IF x.i < 0 THEN Max(n + x.i, 0)
    ELSE Min(x.i, n)
PySlice(s, a, b) ==
    LET lo == PyIndex(a, Len(s), 0)
        hi == PyIndex(b, Len(s), Len(s))
    IN  IF lo >= hi THEN <<>> ELSE SubSeq(s, lo + 1, hi)

----------------------------------------------------------------------------
(* The volume: an immutable byte buffer.  Sector 0 is the boot record: the *)
(* jump instruction EB 52 90, then the OEM id at bytes 3..6.  Every other  *)
(* byte is given a value that depends on its offset, never zero.           *)

OemNTFS == <<78, 84, 70, 83>>
OemOther == <<70, 65, 84, 51>>
JumpBytes == <<235, 82, 144>>

VolumeByte(vol, off) ==
    IF off < 3 THEN JumpBytes[off + 1]
    ELSE IF off < 7 THEN vol.oem_id[off - 2]
    ELSE 1 + ((off * 7) % 255)

(* volume[start:end]: reading past the end of the volume is an Overrun *)
Volume_getslice(vol, start, end) ==
    IF end > vol.size THEN Raise("Overrun")
    ELSE IF end <= start THEN Return(<<>>)
    ELSE Return([i \in 1..(end - start) |-> VolumeByte(vol, start + i - 1)])

(* ClusterAccessor.__getitem__ *)
ClusterAccessor_getitem(vol, cs, index) ==
    Volume_getslice(vol, index * cs, (index + 1) * cs)

(* ClusterAccessor.__getslice__ *)
ClusterAccessor_getslice(vol, cs, start, end) ==
    Volume_getslice(vol, start * cs, end * cs)

----------------------------------------------------------------------------
(* NonResidentAttributeData over (clusters, runentries).  A run is          *)
(* [lcn, len]: cluster_offset and num_clusters of the code.                 *)

RECURSIVE NonResident_lenLoop(_, _, _)
NonResident_lenLoop(runs, cs, k) ==
    IF k > Len(runs) THEN 0
    ELSE runs[k].len * cs + NonResident_lenLoop(runs, cs, k + 1)

(* NonResidentAttributeData.__len__: the cached value when there is one *)
NonResident_len(runs, cs, cached) ==
    IF cached # NoneLen THEN cached ELSE NonResident_lenLoop(runs, cs, 1)

(* the loop of __getitem__ from the k-th run on *)
RECURSIVE NonResident_getitemLoop(_, _, _, _, _, _)
NonResident_getitemLoop(vol, cs, runs, k, index, current_run_start_offset) ==
    IF k > Len(runs) THEN Raise("IndexError")
    ELSE LET cluster_offset == runs[k].lcn
             run_length == runs[k].len * cs
             right_border == current_run_start_offset + run_length
         IN  IF current_run_start_offset <= index /\ index < right_border
             THEN LET target_idx == index - current_run_start_offset
                      target_cluster_idx == target_idx \div cs
                      byte_relative_idx == target_idx - target_cluster_idx * cs
                      cluster == ClusterAccessor_getitem(vol, cs,
                                     cluster_offset + target_cluster_idx)
                  IN  IF cluster.exc # "none" THEN cluster
                      ELSE Return(<<cluster.val[byte_relative_idx + 1]>>)
             ELSE NonResident_getitemLoop(vol, cs, runs, k + 1, index,
                                          current_run_start_offset + run_length)

(* __getitem__ that takes the view for one run that starts at the first lcn *)
NonResident_getitem_onerun(vol, cs, runs, cached, index) ==
    LET idx == IF index < 0 THEN NonResident_len(runs, cs, cached) + index ELSE index
    IN  IF idx < 0 \/ idx >= NonResident_len(runs, cs, cached) THEN Raise("IndexError")
        ELSE LET cluster == ClusterAccessor_getitem(vol, cs, runs[1].lcn + idx \div cs)
             IN  IF cluster.exc # "none" THEN cluster
                 ELSE Return(<<cluster.val[(idx % cs) + 1]>>)

(* NonResidentAttributeData.__getitem__ *)
NonResident_getitem(vol, cs, runs, cached, index) ==
    LET idx == IF index < 0 THEN NonResident_len(runs, cs, cached) + index ELSE index
    IN  NonResident_getitemLoop(vol, cs, runs, 1, idx, 0)

CeilDiv(a, b) == (a + b - 1) \div b

(* the loop of __getslice__ from the k-th run on *)
RECURSIVE NonResident_getsliceLoop(_, _, _, _, _, _, _, _, _)
NonResident_getsliceLoop(vol, cs, runs, k, start, stop, virt_byte_offset, have_found_start, acc) ==
    IF k > Len(runs) THEN Return(acc)
    ELSE
    LET cluster_offset == runs[k].lcn
        num_clusters == runs[k].len
        run_byte_len == num_clusters * cs
        virt_byte_stop == virt_byte_offset + run_byte_len
        is_start_in_run == virt_byte_offset <= start /\ start < virt_byte_stop
    IN  IF ~have_found_start /\ ~is_start_in_run
        THEN NonResident_getsliceLoop(vol, cs, runs, k + 1, start, stop,
                                      virt_byte_offset + run_byte_len, FALSE, acc)
        ELSE
        LET cluster_stop == cluster_offset + num_clusters
            is_stop_in_run == stop <= virt_byte_stop
        IN  IF is_start_in_run /\ is_stop_in_run
            THEN LET s0 == start - virt_byte_offset
                     s1 == stop - virt_byte_offset
                     cstop == CeilDiv(s1, cs)
                     cstart == s0 \div cs
                     bytes == ClusterAccessor_getslice(vol, cs,
                                  cluster_offset + cstart, cluster_offset + cstop)
                     rbyte_offset == (start \div cs) * cs
                 IN  IF bytes.exc # "none" THEN bytes
                     ELSE Return(PySlice(bytes.val, PyInt(start - rbyte_offset),
                                         PyInt(stop - rbyte_offset)))
            ELSE LET bytes == ClusterAccessor_getslice(vol, cs,
                                  cluster_offset, cluster_stop)
                     s0 == IF is_start_in_run THEN PyInt(start - virt_byte_offset)
                                              ELSE PyNone
                     s1 == IF is_stop_in_run THEN PyInt(stop - virt_byte_offset)
                                             ELSE PyNone
                 IN  IF bytes.exc # "none" THEN bytes
                     ELSE NonResident_getsliceLoop(vol, cs, runs, k + 1, start, stop,
                              virt_byte_offset + run_byte_len, TRUE,
                              acc \o PySlice(bytes.val, s0, s1))

(* NonResidentAttributeData.__getslice__ *)
NonResident_getslice(vol, cs, runs, cached, start, stop) ==
    LET n == NonResident_len(runs, cs, cached)
        stop1 == IF stop < 0 THEN n + stop ELSE stop
        start1 == IF start < 0 THEN n + start ELSE start
    IN  IF Max(start1, stop1) > n THEN Raise("IndexError")
        ELSE NonResident_getsliceLoop(vol, cs, runs, 1, start1, stop1, 0, FALSE, <<>>)

----------------------------------------------------------------------------
(* The data view under test: every runlist of up to MaxRuns runs that      *)
(* start at one of RunLcns.  lcn 0 is a sparse run.  The volume is large   *)
(* enough to hold every run.                                               *)

RunLcns == {0, 1, 3}
Runs == [lcn : RunLcns, len : 1..MaxRunLen]
Runlists == UNION {[1..n -> Runs] : n \in 1..MaxRuns}

NoAttr == [non_resident |-> 0, value |-> <<>>, runs |-> <<>>, data_size |-> 0]
Call(op, a, b, str) == [op |-> op, a |-> a, b |-> b, s |-> str]
NoCall == Call("none", 0, 0, <<>>)
NoDisk == [mft_lcn |-> 0, mftmirr_lcn |-> 0, mft_runs |-> <<>>, mirr_runs |-> <<>>,
           bad |-> {}, records |-> <<>>]
NoFs == [state |-> "none", source |-> "none", mft_data |-> <<>>, tried |-> <<>>]
TheVolume(cs) == [oem_id |-> OemNTFS, size |-> (3 + MaxRunLen) * cs]

ViewLen == NonResident_lenLoop(runentries, cluster_size, 1)

Init ==
    /\ cluster_size = 2
    /\ volume = TheVolume(cluster_size)
    /\ runentries \in Runlists
    /\ view_len = NoneLen
    /\ attr = NoAttr
    /\ disk = NoDisk
    /\ fs = NoFs
    /\ call = NoCall
    /\ ret = Return(<<>>)

(* len(view) *)
ViewLength ==
    /\ call' = Call("len", 0, 0, <<>>)
    /\ ret' = ReturnInt(NonResident_len(runentries, cluster_size, view_len))
    /\ view_len' = NonResident_len(runentries, cluster_size, view_len)
    /\ UNCHANGED <<volume, cluster_size, runentries, attr, disk, fs>>

(* A view has two states, its length cached or not, and len() is the call  *)
(* that moves it from one to the other: reads are made on a view in either *)
(* state, and the state a read leaves is one that len() leaves too.        *)
Readable == call.op \in {"none", "len"}

(* view[index]: len(self) is evaluated, and cached, for a negative index  *)
(* and when the IndexError message is built                                *)
GetItem(index) ==
    LET r == NonResident_getitem(volume, cluster_size, runentries, view_len, index)
    IN  /\ Readable
        /\ call' = Call("getitem", index, 0, <<>>)
        /\ ret' = r
        /\ view_len' = IF index < 0 \/ r.exc = "IndexError"
                       THEN NonResident_len(runentries, cluster_size, view_len)
                       ELSE view_len
        /\ UNCHANGED <<volume, cluster_size, runentries, attr, disk, fs>>

(* view[start:stop] *)
GetSlice(start, stop) ==
    /\ Readable
    /\ call' = Call("getslice", start, stop, <<>>)
    /\ ret' = NonResident_getslice(volume, cluster_size, runentries, view_len,
                                   start, stop)
    /\ view_len' = NonResident_len(runentries, cluster_size, view_len)
    /\ UNCHANGED <<volume, cluster_size, runentries, attr, disk, fs>>

Next ==
    \/ ViewLength
    \/ \E index \in (0 - 1)..ViewLen : GetItem(index)
    \/ \E start \in 0..ViewLen : \E stop \in start..(ViewLen + 1) :
           GetSlice(start, stop)

Spec == Init /\ [][Next]_vars

----------------------------------------------------------------------------
(* Claims about the data view *)

(* the bytes before run k, and the run that holds byte b of the view *)
RECURSIVE RunStartByte(_, _, _)
RunStartByte(runs, cs, k) ==
    IF k <= 1 THEN 0 ELSE RunStartByte(runs, cs, k - 1) + runs[k - 1].len * cs
RunOfByte(runs, cs, b) ==
    CHOOSE k \in 1..Len(runs) :
        /\ RunStartByte(runs, cs, k) <= b
        /\ b < RunStartByte(runs, cs, k + 1)

NonSparse(runs) == \A k \in 1..Len(runs) : runs[k].lcn # 0
InSparseRun(runs, cs, b) == runs[RunOfByte(runs, cs, b)].lcn = 0

(* read(start), read(start+1), ..., read(stop-1), concatenated *)
RECURSIVE PointReads(_, _)
PointReads(start, stop) ==
    IF stop <= start THEN <<>>
    ELSE NonResident_getitem(volume, cluster_size, runentries, view_len, start).val
         \o PointReads(start + 1, stop)

(* C1: over a runlist of non-sparse runs, slice(start, stop) with          *)
(* 0 <= start <= stop <= length returns exactly stop - start bytes, the    *)
(* concatenation of the point reads read(start) .. read(stop-1).           *)
C1_SliceIsPointReads ==
    (/\ call.op = "getslice"
     /\ NonSparse(runentries)
     /\ call.a <= call.b /\ call.b <= ViewLen)
    => /\ ret.exc = "none"
       /\ Len(ret.val) = call.b - call.a
       /\ ret.val = PointReads(call.a, call.b)

(* C2: every byte of the view inside a sparse run (lcn = 0) reads as 0x00, *)
(* through point read and through slice.                                   *)
C2_SparseReadsZero ==
    /\ (/\ call.op = "getitem"
        /\ 0 <= call.a /\ call.a < ViewLen
        /\ InSparseRun(runentries, cluster_size, call.a))
       => ret = Return(<<0>>)
    /\ (call.op = "getslice" /\ call.b <= ViewLen)
       => \A b \in call.a..(call.b - 1) :
             InSparseRun(runentries, cluster_size, b)
             => /\ ret.exc = "none"
                /\ b - call.a + 1 <= Len(ret.val)
                /\ ret.val[b - call.a + 1] = 0

(* The view read byte by byte: len(view) and view[index] only *)
NextPoint ==
    \/ ViewLength
    \/ \E index \in (0 - 1)..ViewLen : GetItem(index)

SpecPoint == Init /\ [][NextPoint]_vars

(* the length of the view: the sum of length_i * cs *)
TotalBytes(runs, cs) == RunStartByte(runs, cs, Len(runs) + 1)

(* the absolute offset on the volume of byte b of the view *)
AbsoluteOffset(runs, cs, b) ==
    LET k == RunOfByte(runs, cs, b)
    IN  runs[k].lcn * cs + (b - RunStartByte(runs, cs, k))

(* C12: for every byte index b with 0 <= b < sum of length_i * cs, read(b) *)
(* returns the volume byte at absolute offset lcn_k * cs + (b - start of   *)
(* run k), k being the run that holds b; and the length of the view, also  *)
(* once cached, is the sum of length_i * cs.                               *)
C12_ByteMappingAndLength ==
    /\ (/\ call.op = "getitem"
        /\ 0 <= call.a /\ call.a < TotalBytes(runentries, cluster_size))
       => ret = Return(<<VolumeByte(volume,
                            AbsoluteOffset(runentries, cluster_size, call.a))>>)
    /\ call.op = "len"
       => /\ ret = ReturnInt(TotalBytes(runentries, cluster_size))
          /\ view_len = TotalBytes(runentries, cluster_size)
    /\ view_len # NoneLen => view_len = TotalBytes(runentries, cluster_size)

(* a byte of the second run, which does not follow the first run on the    *)
(* volume, read from a view whose length is cached                         *)
C12_Witness ==
    /\ call.op = "getitem"
    /\ view_len # NoneLen
    /\ Len(runentries) >= 2
    /\ NonSparse(runentries)
    /\ 0 <= call.a /\ call.a < TotalBytes(runentries, cluster_size)
    /\ RunOfByte(runentries, cluster_size, call.a) = 2
    /\ runentries[2].lcn # runentries[1].lcn + runentries[1].len
    /\ ret.exc = "none"

----------------------------------------------------------------------------
(* Files: NTFSFile.read over the unnamed $DATA attribute of the record.    *)
(* A resident attribute carries its value; a non-resident one its runlist  *)
(* and data_size, the logical size, which ends in the last cluster.        *)

(* NTFSFilesystem.get_attribute_data: the resident value, or a new view *)
get_attribute_data(a) ==
    IF a.non_resident = 0
    THEN [resident |-> TRUE, value |-> a.value, runs |-> <<>>, len |-> NoneLen]
    ELSE [resident |-> FALSE, value |-> <<>>, runs |-> a.runs, len |-> NoneLen]

(* NTFSFile.read: data[offset:offset+length] *)
NTFSFile_read(vol, cs, a, offset, length) ==
    LET data == get_attribute_data(a)
    IN  IF data.resident
        THEN Return(PySlice(data.value, PyInt(offset), PyInt(offset + length)))
        ELSE NonResident_getslice(vol, cs, data.runs, data.len,
                                  offset, offset + length)

ResidentValue(n) == [i \in 1..n |-> 100 + i]
ResidentAttrs ==
    {[non_resident |-> 0, value |-> ResidentValue(n), runs |-> <<>>, data_size |-> 0] :
        n \in 0..MaxValueLen}
NonResidentAttrs(cs) ==
    UNION {
        {[non_resident |-> 1, value |-> <<>>, runs |-> r, data_size |-> d] :
            d \in (NonResident_lenLoop(r, cs, 1) - cs + 1)..NonResident_lenLoop(r, cs, 1)} :
        r \in Runlists}

InitFile ==
    /\ cluster_size = 2
    /\ volume = TheVolume(cluster_size)
    /\ runentries = <<>>
    /\ view_len = NoneLen
    /\ attr \in ResidentAttrs \cup NonResidentAttrs(cluster_size)
    /\ disk = NoDisk
    /\ fs = NoFs
    /\ call = NoCall
    /\ ret = Return(<<>>)

(* file.read(offset, length) *)
FileRead(offset, length) ==
    /\ call' = Call("read", offset, length, <<>>)
    /\ ret' = NTFSFile_read(volume, cluster_size, attr, offset, length)
    /\ UNCHANGED <<volume, cluster_size, runentries, view_len, attr, disk, fs>>

NextFile ==
    \E offset \in 0..MaxReadOff : \E length \in 0..MaxReadLen :
        FileRead(offset, length)

SpecFile == InitFile /\ [][NextFile]_vars

(* the logical size of the file, and its byte at logical position p *)
LogicalSize(a) == IF a.non_resident = 0 THEN Len(a.value) ELSE a.data_size
RECURSIVE LogicalBytes(_, _, _, _, _)
LogicalBytes(vol, cs, a, from, to) ==
    IF to <= from THEN <<>>
    ELSE (IF a.non_resident = 0 THEN <<a.value[from + 1]>>
          ELSE NonResident_getitem(vol, cs, a.runs, NoneLen, from).val)
         \o LogicalBytes(vol, cs, a, from + 1, to)

(* C9: file.read(offset, length) returns exactly the bytes at logical      *)
(* positions [offset, min(offset + length, S)), S the logical size: never  *)
(* a byte beyond S, and no failure because offset + length exceeds S.      *)
C9_ReadWithinLogicalSize ==
    call.op = "read"
    => ret = Return(LogicalBytes(volume, cluster_size, attr, call.a,
                                 Min(call.a + call.b, LogicalSize(attr))))

----------------------------------------------------------------------------
(* Construction of the filesystem (NTFSFilesystem.__init__).  Sizes are    *)
(* scaled by 1/1024: a cluster of 4 bytes holds 4 MFT records of 1 byte.   *)
(* disk.mft_runs is the $DATA runlist of record 0 in the cluster at        *)
(* mft_lcn, disk.mirr_runs the $DATA runlist of record 1 in the cluster at *)
(* mftmirr_lcn, disk.bad the records whose magic or fixup is wrong.        *)

MFT_RECORD_SIZE == 1
INODE_FIRST_USER == 16
MirrClusters == 1     \* the MFTMirr holds the first four records

(* MFTEnumerator.get_record over the view mft_data: Overrun beyond the     *)
(* view, InvalidRecord on a bad record, else the record numbered n         *)
Enumerator_get_record(vol, cs, d, mft_data, n) ==
    LET start == n * MFT_RECORD_SIZE
        end == start + MFT_RECORD_SIZE
    IN  IF end > NonResident_len(mft_data, cs, NoneLen) THEN Raise("Overrun")
        ELSE LET buf == NonResident_getslice(vol, cs, mft_data, NoneLen, start, end)
             IN  IF buf.exc # "none" THEN buf
                 ELSE IF n \in d.bad THEN Raise("InvalidRecord")
                 ELSE ReturnInt(n)

(* get_mft_buffer / get_mftmirr_buffer followed by b[-1]: the cluster that *)
(* holds the record is read, then the last byte of the view over its       *)
(* $DATA runlist                                                           *)
ProbeBuffer(vol, cs, lcn, runs) ==
    LET chunk == ClusterAccessor_getitem(vol, cs, lcn)
    IN  IF chunk.exc # "none" THEN chunk
        ELSE NonResident_getitem(vol, cs, runs, NoneLen, 0 - 1)

(* the probe of the first user record that ends __init__ *)
ProbeFirstUser(vol, cs, d, source, mft_data) ==
    LET r == Enumerator_get_record(vol, cs, d, mft_data, INODE_FIRST_USER)
    IN  IF r.exc = "Overrun"
        THEN [state |-> "failed", source |-> source, mft_data |-> mft_data,
              ret |-> Raise("CorruptFilesystem")]
        ELSE IF r.exc # "none"
        THEN [state |-> "failed", source |-> source, mft_data |-> mft_data, ret |-> r]
        ELSE [state |-> "ok", source |-> source, mft_data |-> mft_data,
              ret |-> Return(<<>>)]

Failed(e) == [state |-> "failed", source |-> "none", mft_data |-> <<>>, ret |-> Raise(e)]

(* the outcome r of __init__ together with the MFT buffers it built and   *)
(* probed, in the order of the calls to get_mft_buffer / get_mftmirr_buffer *)
Tried(r, buffers) ==
    [state |-> r.state, source |-> r.source, mft_data |-> r.mft_data,
     ret |-> r.ret, tried |-> buffers]

(* __init__ with the two buffers probed in the other order *)
NTFSFilesystem_init_mirrfirst(vol, cs, d) ==
    LET oem_id == Volume_getslice(vol, 3, 7)
    IN  IF oem_id.exc # "none" THEN Tried(Failed(oem_id.exc), <<>>)
        ELSE IF oem_id.val # OemNTFS THEN Tried(Failed("AssertionError"), <<>>)
        ELSE
        LET m == ProbeBuffer(vol, cs, d.mftmirr_lcn, d.mirr_runs)
        IN  IF m.exc = "none"
            THEN Tried(ProbeFirstUser(vol, cs, d, "mirror", d.mirr_runs), <<"mirror">>)
            ELSE IF m.exc # "Overrun" THEN Tried(Failed(m.exc), <<"mirror">>)
            ELSE
            LET b == ProbeBuffer(vol, cs, d.mft_lcn, d.mft_runs)
            IN  IF b.exc = "none"
                THEN Tried(ProbeFirstUser(vol, cs, d, "primary", d.mft_runs),
                           <<"mirror", "primary">>)
                ELSE IF b.exc = "Overrun"
                THEN Tried(Failed("CorruptFilesystem"), <<"mirror", "primary">>)
                ELSE Tried(Failed(b.exc), <<"mirror", "primary">>)

(* NTFSFilesystem.__init__ *)
NTFSFilesystem_init(vol, cs, d) ==
    LET oem_id == Volume_getslice(vol, 3, 7)
    IN  IF oem_id.exc # "none" THEN Tried(Failed(oem_id.exc), <<>>)
        ELSE IF oem_id.val # OemNTFS THEN Tried(Failed("AssertionError"), <<>>)
        ELSE
        LET b == ProbeBuffer(vol, cs, d.mft_lcn, d.mft_runs)
        IN  IF b.exc = "none"
            THEN Tried(ProbeFirstUser(vol, cs, d, "primary", d.mft_runs), <<"primary">>)
            ELSE IF b.exc # "Overrun" THEN Tried(Failed(b.exc), <<"primary">>)
            ELSE
            LET m == ProbeBuffer(vol, cs, d.mftmirr_lcn, d.mirr_runs)
            IN  IF m.exc = "none"
                THEN Tried(ProbeFirstUser(vol, cs, d, "mirror", d.mirr_runs),
                           <<"primary", "mirror">>)
                ELSE IF m.exc = "Overrun"
                THEN Tried(Failed("CorruptFilesystem"), <<"primary", "mirror">>)
                ELSE Tried(Failed(m.exc), <<"primary", "mirror">>)

FsClusterSize == 4
FsVolumeClusters == {6, 9, 12}
FsOemIds == {OemNTFS, OemOther}
MftRuns == [lcn : {2, 7}, len : {1, 3, 5}]
MftRunlists == UNION {[1..n -> MftRuns] : n \in 0..2}
MirrLcns == {1, 20}
BadRecordSets == {{}, {2}, {INODE_FIRST_USER}}
FsRecordNumbers == {0, 1, 2, 3, INODE_FIRST_USER, 19}

InitFs ==
    /\ cluster_size = FsClusterSize
    /\ \E o \in FsOemIds : \E c \in FsVolumeClusters :
          volume = [oem_id |-> o, size |-> c * cluster_size]
    /\ runentries = <<>>
    /\ view_len = NoneLen
    /\ attr = NoAttr
    /\ \E r \in MftRunlists : \E ml \in MirrLcns : \E bad \in BadRecordSets :
          disk = [mft_lcn |-> IF r = <<>> THEN 2 ELSE r[1].lcn, mftmirr_lcn |-> ml,
                  mft_runs |-> r,
                  mirr_runs |-> <<[lcn |-> ml, len |-> MirrClusters]>>, bad |-> bad,
                  records |-> <<>>]
    /\ fs = NoFs
    /\ call = NoCall
    /\ ret = Return(<<>>)

(* NTFSFilesystem(volume) *)
NewFilesystem ==
    LET r == NTFSFilesystem_init(volume, cluster_size, disk)
    IN  /\ fs.state = "none"
        /\ call' = Call("new", 0, 0, <<>>)
        /\ fs' = [state |-> r.state, source |-> r.source, mft_data |-> r.mft_data,
         tried |-> r.tried]
        /\ ret' = r.ret
        /\ UNCHANGED <<volume, cluster_size, runentries, view_len, attr, disk>>

(* fs.get_record(n) on a filesystem that was built *)
GetRecord(n) ==
    /\ fs.state = "ok"
    /\ call' = Call("get_record", n, 0, <<>>)
    /\ ret' = Enumerator_get_record(volume, cluster_size, disk, fs.mft_data, n)
    /\ UNCHANGED <<volume, cluster_size, runentries, view_len, attr, disk, fs>>

NextFs ==
    \/ NewFilesystem
    \/ \E n \in FsRecordNumbers : GetRecord(n)

SpecFs == InitFs /\ [][NextFs]_vars

(* C3: construction yields a usable filesystem or fails with               *)
(* CorruptFilesystem and no other error kind; in particular when bytes     *)
(* 3..7 of the volume are not "NTFS", and when record 16 is unreadable     *)
(* (beyond the MFT view, or an invalid record).                            *)
Record16Unreadable ==
    /\ fs.source # "none"
    /\ Enumerator_get_record(volume, cluster_size, disk, fs.mft_data,
                             INODE_FIRST_USER).exc # "none"
C3_OnlyCorruptFilesystem ==
    call.op = "new"
    => /\ ret.exc \in {"none", "CorruptFilesystem"}
       /\ volume.oem_id # OemNTFS => ret.exc = "CorruptFilesystem"
       /\ Record16Unreadable => ret.exc = "CorruptFilesystem"

(* C4: when reading the last byte of the primary MFT view fails with       *)
(* Overrun and the MFTMirr (the first four records) is fully readable,     *)
(* construction succeeds using the MFTMirr data, and afterwards records    *)
(* 0, 1, 2 and 3 can be retrieved.                                         *)
PrimaryLastByteOverrun ==
    /\ ClusterAccessor_getitem(volume, cluster_size, disk.mft_lcn).exc = "none"
    /\ NonResident_getitem(volume, cluster_size, disk.mft_runs, NoneLen, 0 - 1).exc
          = "Overrun"
MirrFullyReadable ==
    /\ ProbeBuffer(volume, cluster_size, disk.mftmirr_lcn, disk.mirr_runs).exc = "none"
    /\ \A n \in 0..3 :
          Enumerator_get_record(volume, cluster_size, disk, disk.mirr_runs, n).exc
            = "none"
C4_MirrFallbackSucceeds ==
    (/\ call.op = "new"
     /\ volume.oem_id = OemNTFS
     /\ PrimaryLastByteOverrun
     /\ MirrFullyReadable)
    => /\ ret.exc = "none"
       /\ fs.state = "ok"
       /\ fs.source = "mirror"
       /\ \A n \in 0..3 :
             Enumerator_get_record(volume, cluster_size, disk, fs.mft_data, n).exc
               = "none"

(* Where the bytes that __init__ probes lie on the volume: the cluster of  *)
(* the record that holds the runlist, and the last cluster of the last run *)
ClusterInVolume(lcn) == (lcn + 1) * cluster_size <= volume.size
LastByteInVolume(runs) ==
    /\ Len(runs) > 0
    /\ ClusterInVolume(runs[Len(runs)].lcn + runs[Len(runs)].len - 1)
PrimaryOverrun ==
    \/ ~ClusterInVolume(disk.mft_lcn)
    \/ /\ Len(disk.mft_runs) > 0
       /\ ~LastByteInVolume(disk.mft_runs)
PrimaryReadable ==
    /\ ClusterInVolume(disk.mft_lcn)
    /\ LastByteInVolume(disk.mft_runs)
MirrOverrun ==
    \/ ~ClusterInVolume(disk.mftmirr_lcn)
    \/ ~LastByteInVolume(disk.mirr_runs)

(* C11: during construction the primary MFT is always tried first, and the *)
(* MFTMirr is read if and only if building the primary view or reading its *)
(* last byte failed with Overrun; when the primary is readable the MFT     *)
(* data in use is the primary view and the mirror is never consulted; when *)
(* both the primary and the mirror fail with Overrun, construction fails   *)
(* with CorruptFilesystem.                                                 *)
C11_PrimaryFirstThenMirr ==
    (call.op = "new" /\ volume.oem_id = OemNTFS)
    => /\ Len(fs.tried) > 0 /\ fs.tried[1] = "primary"
       /\ (\E i \in 1..Len(fs.tried) : fs.tried[i] = "mirror") <=> PrimaryOverrun
       /\ PrimaryReadable
            => /\ fs.tried = <<"primary">>
               /\ fs.source = "primary"
               /\ fs.mft_data = disk.mft_runs
       /\ (PrimaryOverrun /\ MirrOverrun)
            => /\ ret.exc = "CorruptFilesystem"
               /\ fs.state = "failed"

(* the primary MFT fails with Overrun, the MFTMirr is read and it fails    *)
(* with Overrun too                                                        *)
C11_Witness ==
    /\ call.op = "new"
    /\ volume.oem_id = OemNTFS
    /\ PrimaryOverrun
    /\ MirrOverrun
    /\ fs.tried = <<"primary", "mirror">>
    /\ ret.exc = "CorruptFilesystem"

----------------------------------------------------------------------------
(* MFT records and directories.  disk.records[n] is what record n decodes  *)
(* to: its sequence number, the directory flag, its $FILE_NAME attributes  *)
(* (parent reference and name), the entries of its $INDEX_ROOT node and,   *)
(* when it has an $INDEX_ALLOCATION attribute, the entries of each index   *)
(* block (END entries left out).  A name is a sequence of characters.      *)

INODE_ROOT == 5

(* An MFT reference holds the record number in its low bits and the        *)
(* sequence number above them: 48 and 16 bits on disk, RefRecordBase and   *)
(* RefSeqBase values here.                                                 *)
RefRecordBase == 32
RefSeqBase == 4
MREF(ref) == ref % RefRecordBase
MSEQNO(ref) == (ref \div RefRecordBase) % RefSeqBase
MkRef(n, seq) == seq * RefRecordBase + n

(* unicode.lower and unicode.upper of Python 2, one character at a time.   *)
(* "di" is the dotless i (U+0131): it is its own lower case and its upper  *)
(* case is I.                                                              *)
LowerChar(c) ==
    CASE c = "A" -> "a" [] c = "B" -> "b" [] c = "I" -> "i" [] c = "Z" -> "z"
      [] OTHER -> c
UpperChar(c) ==
    CASE c = "a" -> "A" [] c = "b" -> "B" [] c = "i" -> "I" [] c = "z" -> "Z"
      [] c = "di" -> "I"
      [] OTHER -> c
Lower(str) == [i \in 1..Len(str) |-> LowerChar(str[i])]
Upper(str) == [i \in 1..Len(str) |-> UpperChar(str[i])]

Dot == <<".">>

(* MFTRecord.filename_informations / NTFSFileMetadataMixin.get_filenames *)
get_filenames(rec) == [i \in 1..Len(rec.fns) |-> rec.fns[i].name]

(* dict.values() of CPython 2 for a few small integer keys: the keys are   *)
(* met in the order of their slots, key mod 8                              *)
DictSlots == 8
RECURSIVE DictValues(_)
DictValues(keys) ==
    IF keys = {} THEN <<>>
    ELSE LET k == CHOOSE x \in keys : \A y \in keys : x % DictSlots <= y % DictSlots
         IN  <<k>> \o DictValues(keys \ {k})

(* the entry loops of get_record_children: ret[ref] = get_record(ref) for  *)
(* every entry but the root's "."                                          *)
RECURSIVE ChildrenLoop(_, _, _, _, _, _, _)
ChildrenLoop(vol, cs, d, mft_data, entries, k, keys) ==
    IF k > Len(entries) THEN Return(DictValues(keys))
    ELSE LET ref == MREF(entries[k].ref)
         IN  IF ref = INODE_ROOT /\ entries[k].name = Dot
             THEN ChildrenLoop(vol, cs, d, mft_data, entries, k + 1, keys)
             ELSE LET r == Enumerator_get_record(vol, cs, d, mft_data, ref)
                  IN  IF r.exc # "none" THEN r
                      ELSE ChildrenLoop(vol, cs, d, mft_data, entries, k + 1,
                                        keys \cup {ref})

RECURSIVE Flatten(_)
Flatten(blocks) ==
    IF blocks = <<>> THEN <<>> ELSE Head(blocks) \o Flatten(Tail(blocks))

(* NTFSFilesystem.get_record_children: the entries of the index blocks     *)
(* when the record has an $INDEX_ALLOCATION attribute, the entries of the  *)
(* $INDEX_ROOT node only when it has none (AttributeNotFoundError)         *)
get_record_children(vol, cs, d, mft_data, n) ==
    LET rec == d.records[n]
    IN  IF ~rec.is_dir THEN Return(<<>>)
        ELSE IF rec.has_alloc
        THEN ChildrenLoop(vol, cs, d, mft_data, Flatten(rec.blocks), 1, {})
        ELSE ChildrenLoop(vol, cs, d, mft_data, rec.root, 1, {})

(* does a filename of the child equal the lower-cased name *)
MatchesChild(d, child, name_lower) ==
    \E i \in 1..Len(d.records[child].fns) :
        name_lower = Lower(get_filenames(d.records[child])[i])

RECURSIVE FirstMatch(_, _, _, _)
FirstMatch(d, children, k, name_lower) ==
    IF k > Len(children) THEN Raise("ChildNotFound")
    ELSE IF MatchesChild(d, children[k], name_lower) THEN ReturnInt(children[k])
    ELSE FirstMatch(d, children, k + 1, name_lower)

(* get_child with the name given compared as it is, not lower-cased *)
get_child_exact(vol, cs, d, mft_data, n, name) ==
    LET children == get_record_children(vol, cs, d, mft_data, n)
    IN  IF children.exc # "none" THEN children
        ELSE FirstMatch(d, children.val, 1, name)

(* NTFSDirectory.get_child *)
get_child(vol, cs, d, mft_data, n, name) ==
    LET name_lower == Lower(name)
        children == get_record_children(vol, cs, d, mft_data, n)
    IN  IF children.exc # "none" THEN children
        ELSE FirstMatch(d, children.val, 1, name_lower)

(* get_record_parent without the comparison of sequence numbers *)
get_record_parent_noseq(vol, cs, d, mft_data, n) ==
    LET rec == d.records[n]
    IN  IF n = 5 THEN Raise("NoParent")
        ELSE IF rec.fns = <<>> THEN Raise("NoParent")
        ELSE LET parent_record == Enumerator_get_record(vol, cs, d, mft_data,
                                                        MREF(rec.fns[1].parent))
             IN  IF parent_record.exc # "none" THEN Raise("NoParent")
                 ELSE ReturnInt(parent_record.int)

(* NTFSFilesystem.get_record_parent *)
get_record_parent(vol, cs, d, mft_data, n) ==
    LET rec == d.records[n]
    IN  IF n = 5 THEN Raise("NoParent")
        ELSE IF rec.fns = <<>> THEN Raise("NoParent")
        ELSE LET fn == rec.fns[1]
                 parent_record_num == MREF(fn.parent)
                 parent_seq_num == MSEQNO(fn.parent)
                 parent_record == Enumerator_get_record(vol, cs, d, mft_data,
                                                        parent_record_num)
             IN  IF parent_record.exc \in {"Overrun", "InvalidRecord"}
                 THEN Raise("NoParent")
                 ELSE IF parent_record.exc # "none" THEN parent_record
                 ELSE IF d.records[parent_record.int].seq # parent_seq_num
                 THEN Raise("NoParent")
                 ELSE ReturnInt(parent_record.int)

(* str.partition(sep): around the first occurrence of sep *)
Partition(path, sep) ==
    LET i == CHOOSE j \in 1..Len(path) :
                 path[j] = sep /\ \A h \in 1..(j - 1) : path[h] # sep
    IN  [exc |-> "none", imm |-> SubSeq(path, 1, i - 1), slash |-> <<sep>>,
         rest |-> SubSeq(path, i + 1, Len(path))]

Contains(path, c) == \E i \in 1..Len(path) : path[i] = c

(* _split_path looking for the other separator in the first component only *)
split_path_first(path) ==
    LET sep == IF Contains(path, "\\") THEN "\\" ELSE "/"
        other == IF sep = "/" THEN "\\" ELSE "/"
    IN  IF ~Contains(path, sep)
        THEN [exc |-> "none", imm |-> path, slash |-> <<>>, rest |-> <<>>]
        ELSE IF Contains(Partition(path, sep).imm, other)
        THEN [exc |-> "UnsupportedPath", imm |-> <<>>, slash |-> <<>>, rest |-> <<>>]
        ELSE Partition(path, sep)

(* NTFSDirectory._split_path *)
split_path(path) ==
    IF Contains(path, "\\")
    THEN IF Contains(path, "/")
         THEN [exc |-> "UnsupportedPath", imm |-> <<>>, slash |-> <<>>, rest |-> <<>>]
         ELSE Partition(path, "\\")
    ELSE IF Contains(path, "/")
    THEN Partition(path, "/")
    ELSE [exc |-> "none", imm |-> path, slash |-> <<>>, rest |-> <<>>]

(* NTFSDirectory.get_path_entry of the directory in record n *)
RECURSIVE get_path_entry(_, _, _, _, _, _)
get_path_entry(vol, cs, d, mft_data, n, path) ==
    LET sp == split_path(path)
    IN  IF sp.exc # "none" THEN Raise(sp.exc)
        ELSE IF sp.slash = <<>> THEN get_child(vol, cs, d, mft_data, n, path)
        ELSE IF sp.rest = <<>> THEN ReturnInt(n)
        ELSE LET child == get_child(vol, cs, d, mft_data, n, sp.imm)
             IN  IF child.exc # "none" THEN child
                 ELSE IF ~d.records[child.int].is_dir
                 THEN Raise("DirectoryDoesNotExist")
                 ELSE get_path_entry(vol, cs, d, mft_data, child.int, sp.rest)

----------------------------------------------------------------------------
(* The volumes the directory operations are run on.  The MFT is one run of *)
(* 5 clusters (20 records) and the filesystem is built over it.  Record 5  *)
(* is the root directory, 16 a directory, 17 a file; record 18 is invalid. *)
(* An index entry whose sequence number is the record's current one refers *)
(* to a record that has a $FILE_NAME in that directory; an entry with      *)
(* another sequence number is stale.                                       *)

DirRecords == {5, 16, 17}
SeqNos == {1, 2}
Entry(n, seq, name) == [ref |-> MkRef(n, seq), name |-> name]
FileName(parent, name) == [parent |-> parent, name |-> name]

RootEntries == {Entry(5, 1, Dot), Entry(16, 1, <<"x">>), Entry(17, 1, <<"x">>),
                Entry(18, 1, <<"x">>)}
SubdirEntries == {Entry(17, 1, <<"x">>)}

(* the nodes over a set of entries: up to MaxNodeEntries entries, in the   *)
(* order of their references                                               *)
Nodes(entries) ==
    {node \in UNION {[1..n -> entries] : n \in 0..MaxNodeEntries} :
        \A i \in 1..(Len(node) - 1) : node[i].ref < node[i + 1].ref}

(* no $INDEX_ALLOCATION, or one with no block or one block *)
Allocations(entries) ==
    {[has_alloc |-> FALSE, blocks |-> <<>>], [has_alloc |-> TRUE, blocks |-> <<>>]}
    \cup {[has_alloc |-> TRUE, blocks |-> <<node>>] : node \in Nodes(entries)}

FileNames16 ==
    {<<FileName(MkRef(5, 1), <<"a">>)>>,
     <<FileName(MkRef(5, 1), <<"A">>), FileName(MkRef(5, 1), <<"b">>)>>,
     <<FileName(MkRef(5, 2), <<"a">>)>>}
FileNames17 ==
    {<<>>,
     <<FileName(MkRef(5, 1), <<"A">>)>>,
     <<FileName(MkRef(16, 1), <<"A">>)>>,
     <<FileName(MkRef(5, 1), <<"b">>), FileName(MkRef(5, 1), <<"di">>)>>,
     <<FileName(MkRef(5, 1), <<"b">>), FileName(MkRef(16, 1), <<"b">>)>>,
     <<FileName(MkRef(18, 1), <<"b">>)>>}

DirDisk(root5, alloc5, root16, seq16, seq17, fns16, fns17) ==
    [mft_lcn |-> 2, mftmirr_lcn |-> 1,
     mft_runs |-> <<[lcn |-> 2, len |-> 5]>>,
     mirr_runs |-> <<[lcn |-> 1, len |-> MirrClusters]>>,
     bad |-> {18},
     records |->
        (5 :> [seq |-> 1, is_dir |-> TRUE,
               fns |-> <<FileName(MkRef(5, 1), Dot)>>,
               root |-> root5, has_alloc |-> alloc5.has_alloc,
               blocks |-> alloc5.blocks])
        @@ (16 :> [seq |-> seq16, is_dir |-> TRUE, fns |-> fns16,
                   root |-> root16, has_alloc |-> FALSE, blocks |-> <<>>])
        @@ (17 :> [seq |-> seq17, is_dir |-> FALSE, fns |-> fns17,
                   root |-> <<>>, has_alloc |-> FALSE, blocks |-> <<>>])]

(* all index entries of record n: its $INDEX_ROOT node and its blocks *)
AllEntries(d, n) == d.records[n].root \o Flatten(d.records[n].blocks)

Stale(d, e) ==
    /\ MREF(e.ref) \in DOMAIN d.records
    /\ d.records[MREF(e.ref)].seq # MSEQNO(e.ref)

HasParent(d, c, n) ==
    \E i \in 1..Len(d.records[c].fns) : MREF(d.records[c].fns[i].parent) = n

WellFormed(d) ==
    \A n \in DOMAIN d.records : \A i \in 1..Len(AllEntries(d, n)) :
        LET e == AllEntries(d, n)[i]
        IN  (MREF(e.ref) \in DOMAIN d.records /\ ~Stale(d, e) /\ e.name # Dot)
            => HasParent(d, MREF(e.ref), n)

DirVolume(cs) == [oem_id |-> OemNTFS, size |-> 8 * cs]
BuiltFs(vol, cs, d) ==
    LET r == NTFSFilesystem_init(vol, cs, d)
    IN  [state |-> r.state, source |-> r.source, mft_data |-> r.mft_data,
         tried |-> r.tried]

InitDir ==
    /\ cluster_size = FsClusterSize
    /\ volume = DirVolume(cluster_size)
    /\ runentries = <<>>
    /\ view_len = NoneLen
    /\ attr = NoAttr
    /\ \E root5 \in Nodes(RootEntries) : \E alloc5 \in Allocations(RootEntries) :
       \E root16 \in Nodes(SubdirEntries) : \E seq16 \in SeqNos : \E seq17 \in SeqNos :
       \E fns16 \in FileNames16 : \E fns17 \in FileNames17 :
          /\ disk = DirDisk(root5, alloc5, root16, seq16, seq17, fns16, fns17)
          /\ WellFormed(disk)
    /\ fs = BuiltFs(volume, cluster_size, disk)
    /\ fs.state = "ok"
    /\ call = NoCall
    /\ ret = Return(<<>>)

ChildNames == {<<"a">>, <<"A">>, <<"b">>, <<"B">>, <<"di">>, <<"I">>, <<"i">>, <<"z">>}

(* The directory calls only read the volume: they leave the filesystem as *)
(* it was built, and each is made on it in that state.                    *)
Fresh == call.op = "none"

(* fs.get_record_children(record n) / NTFSDirectory.get_children *)
Children(n) ==
    /\ Fresh
    /\ call' = Call("children", n, 0, <<>>)
    /\ ret' = get_record_children(volume, cluster_size, disk, fs.mft_data, n)
    /\ UNCHANGED <<volume, cluster_size, runentries, view_len, attr, disk, fs>>

(* fs.get_record_parent(record n) *)
Parent(n) ==
    /\ Fresh
    /\ call' = Call("parent", n, 0, <<>>)
    /\ ret' = get_record_parent(volume, cluster_size, disk, fs.mft_data, n)
    /\ UNCHANGED <<volume, cluster_size, runentries, view_len, attr, disk, fs>>

(* NTFSDirectory(record n).get_child(name) *)
Child(n, name) ==
    /\ Fresh
    /\ disk.records[n].is_dir
    /\ call' = Call("child", n, 0, name)
    /\ ret' = get_child(volume, cluster_size, disk, fs.mft_data, n, name)
    /\ UNCHANGED <<volume, cluster_size, runentries, view_len, attr, disk, fs>>

NextDir ==
    \/ \E n \in DirRecords : Children(n)
    \/ \E n \in DirRecords : Parent(n)
    \/ \E n \in DirRecords : \E name \in ChildNames : Child(n, name)

SpecDir == InitDir /\ [][NextDir]_vars

----------------------------------------------------------------------------
(* Path lookups from the root directory, on volumes where the root holds   *)
(* the directory "a" (record 16) and the file "b" (record 17).             *)

PathChars == {"a", "b", "/", "\\"}
Paths == UNION {[1..n -> PathChars] : n \in 0..MaxPathLen}

InitPath ==
    /\ cluster_size = FsClusterSize
    /\ volume = DirVolume(cluster_size)
    /\ runentries = <<>>
    /\ view_len = NoneLen
    /\ attr = NoAttr
    /\ \E alloc5 \in {a \in Allocations(RootEntries) : ~a.has_alloc} :
       \E root16 \in Nodes(SubdirEntries) :
       \E fns17 \in {f \in FileNames17 : Len(f) = 2} :
          /\ disk = DirDisk(<<Entry(16, 1, <<"x">>), Entry(17, 1, <<"x">>)>>, alloc5,
                            root16, 1, 1, <<FileName(MkRef(5, 1), <<"a">>)>>, fns17)
          /\ WellFormed(disk)
    /\ fs = BuiltFs(volume, cluster_size, disk)
    /\ fs.state = "ok"
    /\ call = NoCall
    /\ ret = Return(<<>>)

(* fs.get_root_directory().get_path_entry(path) *)
PathEntry(path) ==
    /\ Fresh
    /\ call' = Call("entry_at", INODE_ROOT, 0, path)
    /\ ret' = get_path_entry(volume, cluster_size, disk, fs.mft_data, INODE_ROOT, path)
    /\ UNCHANGED <<volume, cluster_size, runentries, view_len, attr, disk, fs>>

NextPath == \E path \in Paths : PathEntry(path)

SpecPath == InitPath /\ [][NextPath]_vars

----------------------------------------------------------------------------
(* Claims about directories *)

Range(seq) == {seq[i] : i \in 1..Len(seq)}
NoDuplicates(seq) == \A i, j \in 1..Len(seq) : seq[i] = seq[j] => i = j
ChildrenOf(n) == get_record_children(volume, cluster_size, disk, fs.mft_data, n)
IsSelfEntry(e) == MREF(e.ref) = INODE_ROOT /\ e.name = Dot
EntryRange(n) == Range(AllEntries(disk, n))

(* C5: for a directory with both $INDEX_ROOT and $INDEX_ALLOCATION,        *)
(* children(record) contains the record of every entry of the $INDEX_ROOT  *)
(* node and of every index block (the root's "." excepted), one child per  *)
(* record number.  Stated for directories whose entries all refer to       *)
(* readable records.                                                       *)
C5_ChildrenOfRootAndBlocks ==
    (/\ call.op = "children"
     /\ disk.records[call.a].is_dir
     /\ disk.records[call.a].has_alloc
     /\ \A e \in EntryRange(call.a) : MREF(e.ref) \notin disk.bad)
    => /\ ret.exc = "none"
       /\ NoDuplicates(ret.val)
       /\ \A e \in EntryRange(call.a) :
             ~IsSelfEntry(e) => MREF(e.ref) \in Range(ret.val)

(* C6: every record returned by d.children() has a parent reference whose  *)
(* record number is d's, and a record that only stale entries refer to     *)
(* (their sequence number is not the record's current one) is not among    *)
(* the children.                                                           *)
C6_ChildrenHaveParentAndNoStale ==
    (call.op = "children" /\ ret.exc = "none")
    => \A c \in Range(ret.val) :
          /\ HasParent(disk, c, call.a)
          /\ \E e \in EntryRange(call.a) : MREF(e.ref) = c /\ ~Stale(disk, e)

(* the names of the children of the directory the call was made on *)
NamesOf(c) == Range(get_filenames(disk.records[c]))
Matching(n, name) ==
    {c \in Range(ChildrenOf(n).val) : \E fn \in NamesOf(c) : Lower(fn) = Lower(name)}

(* C7 as claimed: for every child c of d and every name n of c,            *)
(* d.child(upper(n)) and d.child(lower(n)) return c; a name that matches   *)
(* no filename of any child case-insensitively fails with ChildNotFound.   *)
C7_ChildIgnoresCase ==
    (call.op = "child" /\ ChildrenOf(call.a).exc = "none")
    => /\ \A c \in Range(ChildrenOf(call.a).val) : \A fn \in NamesOf(c) :
             call.s \in {Upper(fn), Lower(fn)} => ret = ReturnInt(c)
       /\ Matching(call.a, call.s) = {} => ret.exc = "ChildNotFound"

(* the first child, in the order of children(), with a matching filename *)
FirstMatching(n, name) ==
    LET ch == ChildrenOf(n).val
        k == CHOOSE i \in 1..Len(ch) :
                 /\ ch[i] \in Matching(n, name)
                 /\ \A j \in 1..(i - 1) : ch[j] \notin Matching(n, name)
    IN  ch[k]

(* C7 amended: for every child c of d and every name n of c whose upper    *)
(* case lower-cases to lower(n), d.child(upper(n)) and d.child(lower(n))   *)
(* return the first child, in the order of d.children(), that has a        *)
(* filename equal to n ignoring case: c itself when no other child has     *)
(* one; a name that matches no filename of any child fails with            *)
(* ChildNotFound.                                                          *)
C7_ChildIgnoresCaseFirstMatch ==
    (call.op = "child" /\ ChildrenOf(call.a).exc = "none")
    => /\ \A c \in Range(ChildrenOf(call.a).val) : \A fn \in NamesOf(c) :
             (call.s \in {Upper(fn), Lower(fn)} /\ Lower(Upper(fn)) = Lower(fn))
             => /\ ret = ReturnInt(FirstMatching(call.a, fn))
                /\ Matching(call.a, fn) = {c} => ret = ReturnInt(c)
       /\ Matching(call.a, call.s) = {} => ret.exc = "ChildNotFound"

(* a lookup by the upper-cased name of a child that two children match *)
C7_Witness ==
    /\ call.op = "child"
    /\ ret.exc = "none"
    /\ Cardinality(Matching(call.a, call.s)) = 2
    /\ \E fn \in NamesOf(ret.int) : call.s = Upper(fn) /\ call.s # fn

(* '/' for '\' and '\' for '/' *)
SwapSeparators(path) ==
    [i \in 1..Len(path) |->
        IF path[i] = "/" THEN "\\" ELSE IF path[i] = "\\" THEN "/" ELSE path[i]]
Mixed(path) == Contains(path, "/") /\ Contains(path, "\\")

(* C8: components joined by '/' and the same components joined by '\'      *)
(* resolve to the same entry (or fail alike), and every path that holds    *)
(* both a '/' and a '\' fails with UnsupportedPath, wherever the two       *)
(* separators are and whether or not its components exist.                 *)
C8_PathSeparators ==
    call.op = "entry_at"
    => /\ Mixed(call.s) => ret = Raise("UnsupportedPath")
       /\ ~Mixed(call.s)
          => ret = get_path_entry(volume, cluster_size, disk, fs.mft_data,
                                  call.a, SwapSeparators(call.s))

(* a\b resolved to the file in the subdirectory *)
C8_Witness ==
    /\ call.op = "entry_at"
    /\ call.s = <<"a", "\\", "b">>
    /\ ret = ReturnInt(17)
    /\ HasParent(disk, 17, 16)

(* C10: parent(record) fails with NoParent for inode 5, for a record       *)
(* without $FILE_NAME and when the parent record's current sequence number *)
(* is not the one in the parent reference; the directory it returns has    *)
(* the record number and the sequence number of the parent reference.      *)
C10_ParentOrNoParent ==
    call.op = "parent"
    => LET rec == disk.records[call.a]
       IN  /\ call.a = INODE_ROOT => ret = Raise("NoParent")
           /\ rec.fns = <<>> => ret = Raise("NoParent")
           /\ (/\ rec.fns # <<>>
               /\ MREF(rec.fns[1].parent) \in DOMAIN disk.records
               /\ disk.records[MREF(rec.fns[1].parent)].seq # MSEQNO(rec.fns[1].parent))
              => ret = Raise("NoParent")
           /\ ret.exc = "none"
              => /\ ret.int = rec.fns[1].parent % RefRecordBase
                 /\ disk.records[ret.int].seq
                      = (rec.fns[1].parent \div RefRecordBase) % RefSeqBase

(* the parent of the file is the subdirectory, found by a current reference *)
C10_Witness ==
    /\ call.op = "parent"
    /\ call.a = 17
    /\ ret = ReturnInt(16)
    /\ disk.records[16].seq = 1

(* the entries of record n that refer to an invalid record, and the others *)
InvalidEntry(e) == MREF(e.ref) \in disk.bad
ReadableEntry(e) == MREF(e.ref) \in DOMAIN disk.records

(* C13: when, during children(record), the record of one index entry is an *)
(* InvalidRecord, only that child is dropped: children(record) does not    *)
(* abort and returns every other child whose record can be read.  Stated   *)
(* for directories whose index is the $INDEX_ROOT node alone.              *)
C13_InvalidChildDropped ==
    (/\ call.op = "children"
     /\ disk.records[call.a].is_dir
     /\ ~disk.records[call.a].has_alloc
     /\ \E e \in EntryRange(call.a) : InvalidEntry(e))
    => /\ ret.exc = "none"
       /\ \A e \in EntryRange(call.a) :
             /\ InvalidEntry(e) => MREF(e.ref) \notin Range(ret.val)
             /\ (ReadableEntry(e) /\ ~IsSelfEntry(e))
                  => MREF(e.ref) \in Range(ret.val)

============================================================================
